---- MODULE Spec2Model ----
(***************************************************************************)
(* Model of src/tools/ImageQueryTime/main.cpp (SdfLib): the command line   *)
(* handling of main, the row-major scan that queries the two distance      *)
(* engines per pixel, and the printImage colour encoder.                   *)
(*                                                                         *)
(* Numbers.  float distances are integers in units of 1e-6, so the         *)
(* tolerance 1e-5 is 10; elapsed times are positive integers; the          *)
(* arithmetic of the bucket index and of the colour ramp is exact rational *)
(* arithmetic (numerator, denominator).  uint32_t values whose width       *)
(* matters (imageWidth, the loop counters, the element count, the result   *)
(* of the float -> uint32_t cast, the packed pixel) are pairs of 16-bit    *)
(* halves [hi, lo], so that every operation is taken modulo 2^32.          *)
(***************************************************************************)
EXTENDS Integers, Sequences, FiniteSets, TLC

\* ------------------------------------------------------------------ bounds
MaxWidth == 2
MaxPrintWidth == 2
MaxOOBSteps == 2

\* ------------------------------------------------- 32-bit unsigned integers
Half == 65536

U32(n) == [hi |-> n \div Half, lo |-> n % Half]

ToInt(a) == a.hi * Half + a.lo

Lt32(a, b) == a.hi < b.hi \/ (a.hi = b.hi /\ a.lo < b.lo)

Add32(a, b) ==
    LET s == a.lo + b.lo
    IN  [hi |-> (a.hi + b.hi + s \div Half) % Half, lo |-> s % Half]

\* full product of two 16-bit halves, as a 32-bit pair
Mul16(x, y) ==
    LET p0 == x * (y % 256)
        p1 == x * (y \div 256)
        t  == p0 + 256 * (p1 % 256)
    IN  [hi |-> (t \div Half + p1 \div 256) % Half, lo |-> t % Half]

Mul32(a, b) ==
    LET ll    == Mul16(a.lo, b.lo)
        cross == (Mul16(a.hi, b.lo).lo + Mul16(a.lo, b.hi).lo) % Half
    IN  [hi |-> (ll.hi + cross) % Half, lo |-> ll.lo]

\* glm::min(x, y) is (y < x) ? y : x
Min32(x, y) == IF Lt32(y, x) THEN y ELSE x

\* ------------------------------------------------------------ float helpers
\* glm::min / glm::max / glm::abs on the scaled values
FMin(x, y) == IF y < x THEN y ELSE x

FMax(x, y) == IF x < y THEN y ELSE x

\* glm::abs left out: the signed difference
FAbsSigned(x) == x

FAbs(x) == IF x < 0 THEN 0 - x ELSE x

\* glm::round of the rational n/d (d > 0): halves go away from zero
RoundHalfAway(n, d) ==
    IF n >= 0 THEN (2 * n + d) \div (2 * d)
              ELSE 0 - ((2 * (0 - n) + d) \div (2 * d))

\* ------------------------------------------------------- program constants
HistSize == 40
Tolerance == 10
Infinity == 1000000
Diag == 2000000

\* ------------------------------------------------------------------ inputs
Widths == 0 .. MaxWidth

\* widths whose square does not fit in 32 bits: 65536 and 2^32 - 1
WideWidths == { [hi |-> 1, lo |-> 0], [hi |-> 65535, lo |-> 65535] }

\* what the two engines return at a pixel and how long they took:
\* dist1 from exactSdf->getDistance, dist2 from cgalTree.getDistance (a
\* square root, never negative), t1 and t2 from the timer
Samples ==
    { [dist1 |-> 100000,   dist2 |-> 100001,  t1 |-> 1, t2 |-> 2],
      [dist1 |-> 3000000,  dist2 |-> 3000010, t1 |-> 3, t2 |-> 1],
      [dist1 |-> 100000,   dist2 |-> 100100,  t1 |-> 2, t2 |-> 3],
      [dist1 |-> -2400000, dist2 |-> 2400000, t1 |-> 2, t2 |-> 2] }

VARIABLES
    pc,             \* position in main / printImage
    parseResult,    \* "none", "ok", "help", "error": what ParseCLI did
    outcome,        \* "running", "return0", "terminate", "crash"
    usagePrinted,   \* std::cerr << parser happened
    loaded,         \* mesh, SDF and engines were constructed
    imageWidth,     \* uint32_t
    outImage1, outImage2,
    i, j,           \* loop counters, uint32_t
    minImage1, maxImage1, minImage2, maxImage2,
    histAccTime1, histCount1, histAccTime2, histCount2,
    idx,            \* bucket index of the last pixel
    maxError,
    finalImage1, finalImage2,
    minColorInterval, maxColorInterval,
    writerCalls,    \* calls of stbi_write_png, in order
    written,        \* indices the scan stored into outImage1/outImage2
    history,        \* per processed pixel: dist1, dist2, bucket value, idx
    paletteReads,   \* colorsPalette subscripts used by printImage
    oobSteps        \* stores that fell outside outImage1/outImage2

vars == << pc, parseResult, outcome, usagePrinted, loaded, imageWidth,
           outImage1, outImage2,
           i, j, minImage1, maxImage1, minImage2, maxImage2,
           histAccTime1, histCount1, histAccTime2, histCount2, idx, maxError,
           finalImage1, finalImage2, minColorInterval, maxColorInterval,
           writerCalls, written, history, paletteReads, oobSteps >>

scanVars == << outImage1, outImage2, i, j, minImage1, maxImage1, minImage2,
               maxImage2, histAccTime1, histCount1, histAccTime2, histCount2,
               idx, maxError, written, history, oobSteps >>

printVars == << finalImage1, finalImage2, minColorInterval, maxColorInterval,
                writerCalls, paletteReads >>

Zeros(n) == [k \in 0 .. n - 1 |-> 0]

\* std::vector<uint32_t>(n)
ZeroWords(n) == [k \in 0 .. n - 1 |-> U32(0)]

\* std::vector::size
Size(v) == Cardinality(DOMAIN v)

Init ==
    /\ pc = "parse"
    /\ parseResult = "none"
    /\ outcome = "running"
    /\ usagePrinted = FALSE
    /\ loaded = FALSE
    /\ imageWidth = U32(0)
    /\ outImage1 = Zeros(0)
    /\ outImage2 = Zeros(0)
    /\ i = U32(0)
    /\ j = U32(0)
    /\ minImage1 = Infinity
    /\ maxImage1 = 0
    /\ minImage2 = Infinity
    /\ maxImage2 = 0
    /\ histAccTime1 = Zeros(HistSize)
    /\ histCount1 = Zeros(HistSize)
    /\ histAccTime2 = Zeros(HistSize)
    /\ histCount2 = Zeros(HistSize)
    /\ idx = 0
    /\ maxError = 0
    /\ finalImage1 = ZeroWords(0)
    /\ finalImage2 = ZeroWords(0)
    /\ minColorInterval = 0
    /\ maxColorInterval = 1
    /\ writerCalls = << >>
    /\ written = {}
    /\ history = << >>
    /\ paletteReads = {}
    /\ oobSteps = 0

\* ----------------------------------------------------------- command line
\* parser.ParseCLI returned normally; the width is read later by args::get
ParseOk(w) ==
    /\ pc = "parse"
    /\ parseResult' = "ok"
    /\ imageWidth' = w
    /\ pc' = "load"
    /\ UNCHANGED << outcome, usagePrinted, loaded >>
    /\ UNCHANGED scanVars
    /\ UNCHANGED printVars

\* the handler of args::Help without its return: usage, then main goes on
ParseHelpNoReturn ==
    /\ pc = "parse"
    /\ parseResult' = "help"
    /\ usagePrinted' = TRUE
    /\ pc' = "load"
    /\ UNCHANGED << outcome, loaded, imageWidth >>
    /\ UNCHANGED scanVars
    /\ UNCHANGED printVars

\* -h / --help: ParseCLI throws args::Help, caught by catch(args::Help)
ParseHelp ==
    /\ pc = "parse"
    /\ parseResult' = "help"
    /\ usagePrinted' = TRUE
    /\ outcome' = "return0"
    /\ pc' = "exited"
    /\ UNCHANGED << loaded, imageWidth >>
    /\ UNCHANGED scanVars
    /\ UNCHANGED printVars

\* any other rejection: ParseCLI throws args::ParseError (or another
\* args::Error); no handler matches, the exception leaves main
ParseFail ==
    /\ pc = "parse"
    /\ parseResult' = "error"
    /\ outcome' = "terminate"
    /\ pc' = "exited"
    /\ UNCHANGED << usagePrinted, loaded, imageWidth >>
    /\ UNCHANGED scanVars
    /\ UNCHANGED printVars

\* Mesh, normalisation, SdfFunction::loadFromFile, ICG, CGALtree, samplesQuad
Load ==
    /\ pc = "load"
    /\ loaded' = TRUE
    /\ pc' = "alloc"
    /\ UNCHANGED << parseResult, outcome, usagePrinted, imageWidth >>
    /\ UNCHANGED scanVars
    /\ UNCHANGED printVars

\* element count of outImage1 / outImage2: imageWidth * imageWidth in uint32_t
ImageSize(w) == Mul32(w, w)

\* the two vectors, the running statistics, the histograms, maxError, j = 0
Alloc ==
    /\ pc = "alloc"
    /\ outImage1' = Zeros(ToInt(ImageSize(imageWidth)))
    /\ outImage2' = Zeros(ToInt(ImageSize(imageWidth)))
    /\ minImage1' = Infinity
    /\ maxImage1' = 0
    /\ minImage2' = Infinity
    /\ maxImage2' = 0
    /\ histAccTime1' = Zeros(HistSize)
    /\ histCount1' = Zeros(HistSize)
    /\ histAccTime2' = Zeros(HistSize)
    /\ histCount2' = Zeros(HistSize)
    /\ maxError' = 0
    /\ j' = U32(0)
    /\ pc' = "outer"
    /\ UNCHANGED << parseResult, outcome, usagePrinted, loaded, imageWidth,
                    i, idx,
                    written, history, oobSteps >>
    /\ UNCHANGED printVars

\* ------------------------------------------------------------------ the scan
\* (dist1 * invDiag + 1.0f) * 20.0f, rounded by glm::round
BucketRound(dist1) == RoundHalfAway(20 * (dist1 + Diag), Diag)

\* static_cast<uint32_t>(float): defined when the value is representable;
\* for a negative value the conversion is undefined, and the builds produce
\* either the wrapped value 2^32 + r (x86-64: cvttss2si, low 32 bits) or the
\* saturated value 0 (AArch64: fcvtzu)
CastU32(r) ==
    IF r >= 0
    THEN { U32(r) }
    ELSE { [hi |-> (Half - 1) - ((0 - r - 1) \div Half),
            lo |-> (Half - 1) - ((0 - r - 1) % Half)],
           U32(0) }

\* glm::min(static_cast<uint32_t>(...), 39u)
BucketIndex(c) == ToInt(Min32(c, U32(HistSize - 1)))

\* j * imageWidth + i in uint32_t
PixelIndex == Add32(Mul32(j, imageWidth), i)

\* the body of the inner loop for one pixel, the store into the two vectors
\* excepted: histogram, time intervals, maxError, i++
PixelStats(s, c) ==
    LET b == BucketIndex(c)
    IN  /\ idx' = b
        /\ histAccTime1' = [histAccTime1 EXCEPT ![b] = @ + s.t1]
        /\ histCount1' = [histCount1 EXCEPT ![b] = @ + 1]
        /\ minImage1' = FMin(minImage1, s.t1)
        /\ maxImage1' = FMax(maxImage1, s.t1)
        /\ histAccTime2' = [histAccTime2 EXCEPT ![b] = @ + s.t2]
        /\ histCount2' = [histCount2 EXCEPT ![b] = @ + 1]
        /\ minImage2' = FMin(minImage2, s.t2)
        /\ maxImage2' = FMax(maxImage2, s.t2)
        /\ maxError' = FMax(maxError, FAbs(s.dist1 - s.dist2))
        /\ history' = Append(history, [dist1 |-> s.dist1, dist2 |-> s.dist2,
                                       r |-> BucketRound(s.dist1), idx |-> b])
        /\ i' = Add32(i, U32(1))

\* the outer loop's test j < imageWidth
OuterTest ==
    /\ pc = "outer"
    /\ IF Lt32(j, imageWidth)
       THEN i' = U32(0) /\ pc' = "inner"
       ELSE i' = i /\ pc' = "log"
    /\ UNCHANGED << parseResult, outcome, usagePrinted, loaded, imageWidth,
                    outImage1,
                    outImage2, j, minImage1, maxImage1, minImage2, maxImage2,
                    histAccTime1, histCount1, histAccTime2, histCount2, idx,
                    maxError, written, history, oobSteps >>
    /\ UNCHANGED printVars

\* the tolerance test moved into the inner loop: break right after the pixel
ScanPixelAbort(s, c) ==
    /\ pc = "inner"
    /\ Lt32(i, imageWidth)
    /\ Lt32(PixelIndex, ImageSize(imageWidth))
    /\ outImage1' = [outImage1 EXCEPT ![ToInt(PixelIndex)] = s.t1]
    /\ outImage2' = [outImage2 EXCEPT ![ToInt(PixelIndex)] = s.t2]
    /\ written' = written \cup { ToInt(PixelIndex) }
    /\ PixelStats(s, c)
    /\ pc' = IF maxError' > Tolerance THEN "log" ELSE "inner"
    /\ UNCHANGED << parseResult, outcome, usagePrinted, loaded, imageWidth,
                    j, oobSteps >>
    /\ UNCHANGED printVars

\* one pixel whose index lies inside the two vectors
ScanPixel(s, c) ==
    /\ pc = "inner"
    /\ Lt32(i, imageWidth)
    /\ Lt32(PixelIndex, ImageSize(imageWidth))
    /\ outImage1' = [outImage1 EXCEPT ![ToInt(PixelIndex)] = s.t1]
    /\ outImage2' = [outImage2 EXCEPT ![ToInt(PixelIndex)] = s.t2]
    /\ written' = written \cup { ToInt(PixelIndex) }
    /\ PixelStats(s, c)
    /\ pc' = "inner"
    /\ UNCHANGED << parseResult, outcome, usagePrinted, loaded, imageWidth,
                    j, oobSteps >>
    /\ UNCHANGED printVars

\* one pixel whose index is not inside the two vectors (the element count
\* wrapped): the stores are undefined; the process dies, or the stores land
\* outside the vectors and the loop goes on
ScanPixelOOB(s, c) ==
    /\ pc = "inner"
    /\ Lt32(i, imageWidth)
    /\ ~ Lt32(PixelIndex, ImageSize(imageWidth))
    /\ oobSteps < MaxOOBSteps
    /\ oobSteps' = oobSteps + 1
    /\ \/ /\ pc' = "exited"
          /\ outcome' = "crash"
          /\ UNCHANGED << i, minImage1, maxImage1, minImage2, maxImage2,
                          histAccTime1, histCount1, histAccTime2, histCount2,
                          idx, maxError, history >>
       \/ /\ pc' = "inner"
          /\ outcome' = outcome
          /\ PixelStats(s, c)
    /\ UNCHANGED << parseResult, usagePrinted, loaded, imageWidth, outImage1,
                    outImage2,
                    j, written >>
    /\ UNCHANGED printVars

\* the end of a row with >= in place of >
InnerEndGe ==
    /\ pc = "inner"
    /\ ~ Lt32(i, imageWidth)
    /\ IF maxError >= Tolerance
       THEN j' = j /\ pc' = "log"
       ELSE j' = Add32(j, U32(1)) /\ pc' = "outer"
    /\ UNCHANGED << parseResult, outcome, usagePrinted, loaded, imageWidth,
                    outImage1, outImage2, i, minImage1, maxImage1, minImage2,
                    maxImage2, histAccTime1, histCount1, histAccTime2,
                    histCount2, idx, maxError, written, history, oobSteps >>
    /\ UNCHANGED printVars

\* end of a row: if(maxError > 1e-5) break; otherwise j++
InnerEnd ==
    /\ pc = "inner"
    /\ ~ Lt32(i, imageWidth)
    /\ IF maxError > Tolerance
       THEN j' = j /\ pc' = "log"
       ELSE j' = Add32(j, U32(1)) /\ pc' = "outer"
    /\ UNCHANGED << parseResult, outcome, usagePrinted, loaded, imageWidth,
                    outImage1,
                    outImage2, i, minImage1, maxImage1, minImage2, maxImage2,
                    histAccTime1, histCount1, histAccTime2, histCount2, idx,
                    maxError, written, history, oobSteps >>
    /\ UNCHANGED printVars

\* after the loop: the three log lines, finalImage1/finalImage2 are allocated,
\* the palette and the printImage lambda are defined; every call of printImage
\* and both histogram reports are commented out, so main returns
Log ==
    /\ pc = "log"
    /\ finalImage1' = ZeroWords(Size(outImage1))
    /\ finalImage2' = ZeroWords(Size(outImage1))
    /\ pc' = "exited"
    /\ outcome' = "return0"
    /\ UNCHANGED << parseResult, usagePrinted, loaded, imageWidth,
                    minColorInterval,
                    maxColorInterval, writerCalls, paletteReads >>
    /\ UNCHANGED scanVars

Next ==
    \/ \E w \in Widths : ParseOk(U32(w))
    \/ ParseHelp
    \/ ParseFail
    \/ Load
    \/ Alloc
    \/ OuterTest
    \/ \E s \in Samples : \E c \in CastU32(BucketRound(s.dist1)) : ScanPixel(s, c)
    \/ InnerEnd
    \/ Log

Spec == Init /\ [][Next]_vars

\* the scan for every width a uint32_t can hold, the wide ones included
NextWide ==
    \/ \E w \in Widths : ParseOk(U32(w))
    \/ \E w \in WideWidths : ParseOk(w)
    \/ ParseHelp
    \/ ParseFail
    \/ Load
    \/ Alloc
    \/ OuterTest
    \/ \E s \in Samples : \E c \in CastU32(BucketRound(s.dist1)) : ScanPixel(s, c)
    \/ \E s \in Samples : \E c \in CastU32(BucketRound(s.dist1)) : ScanPixelOOB(s, c)
    \/ InnerEnd
    \/ Log

SpecWide == Init /\ [][NextWide]_vars

\* -------------------------------------------------------------- printImage
colorsPalette ==
    << <<1, 0, 1>>, <<0, 0, 1>>, <<0, 1, 0>>, <<1, 1, 0>>, <<1, 0, 0>> >>

\* colorsPalette[k], k counted from 0; a subscript outside the array reads
\* whatever follows it, here black
PaletteAt(k) ==
    IF k \in 0 .. Len(colorsPalette) - 1 THEN colorsPalette[k + 1]
                                         ELSE <<0, 0, 0>>

\* the clamp with the upper limit size-1 - 0.1 in place of size-1 - 0.01
ClampIndexCoarse(q) ==
    IF q.num < 0 THEN [num |-> 0, den |-> 1]
    ELSE IF 10 * q.num > (10 * (Len(colorsPalette) - 1) - 1) * q.den
         THEN [num |-> 10 * (Len(colorsPalette) - 1) - 1, den |-> 10]
         ELSE q

\* the clamp without its upper limit
ClampIndexNoUpper(q) ==
    IF q.num < 0 THEN [num |-> 0, den |-> 1] ELSE q

\* glm::clamp(x, 0.0f, float(colorsPalette.size()-1) - 0.01f) of a rational
ClampIndex(q) ==
    IF q.num < 0 THEN [num |-> 0, den |-> 1]
    ELSE IF 100 * q.num > (100 * (Len(colorsPalette) - 1) - 1) * q.den
         THEN [num |-> 100 * (Len(colorsPalette) - 1) - 1, den |-> 100]
         ELSE q

\* value * (colorsPalette.size()-1), clamped, for a pixel value v
PaletteIndex(v, lo, hi) ==
    ClampIndex([num |-> (Len(colorsPalette) - 1) * (v - lo), den |-> hi - lo])

\* static_cast<uint32_t>(index) and glm::fract(index) for index >= 0
FloorQ(q) == q.num \div q.den

FractQ(q) == [num |-> q.num % q.den, den |-> q.den]

\* interpolate(a, b, t) = (1 - t) * a + t * b, per channel
Interpolate(a, b, t) ==
    [ch \in 1 .. 3 |-> [num |-> (t.den - t.num) * a[ch] + t.num * b[ch],
                        den |-> t.den]]

\* static_cast<uint32_t>(255.0f * channel)
Channel(q) == (255 * q.num) \div q.den

\* (255 << 24) | (z << 16) | (y << 8) | x
PackRGBA(col) ==
    [hi |-> 255 * 256 + Channel(col[3]),
     lo |-> Channel(col[2]) * 256 + Channel(col[1])]

\* the packed word of one pixel value
EncodePixel(v, lo, hi) ==
    LET index == PaletteIndex(v, lo, hi)
    IN  PackRGBA(Interpolate(PaletteAt(FloorQ(index)),
                             PaletteAt(FloorQ(index) + 1),
                             FractQ(index)))

\* the two palette subscripts used for one pixel value
PaletteSubscripts(v, lo, hi) ==
    { FloorQ(PaletteIndex(v, lo, hi)), FloorQ(PaletteIndex(v, lo, hi)) + 1 }

\* one iteration of the loop of printImage: pixel i of both images
PrintPixel ==
    /\ pc = "print"
    /\ Lt32(i, U32(Size(outImage1)))
    /\ finalImage1' = [finalImage1 EXCEPT ![ToInt(i)] =
           EncodePixel(outImage1[ToInt(i)], minColorInterval, maxColorInterval)]
    /\ finalImage2' = [finalImage2 EXCEPT ![ToInt(i)] =
           EncodePixel(outImage2[ToInt(i)], minColorInterval, maxColorInterval)]
    /\ paletteReads' = paletteReads
           \cup PaletteSubscripts(outImage1[ToInt(i)], minColorInterval, maxColorInterval)
           \cup PaletteSubscripts(outImage2[ToInt(i)], minColorInterval, maxColorInterval)
    /\ i' = Add32(i, U32(1))
    /\ pc' = "print"
    /\ UNCHANGED << parseResult, outcome, usagePrinted, loaded, imageWidth,
                    outImage1,
                    outImage2, j, minImage1, maxImage1, minImage2, maxImage2,
                    histAccTime1, histCount1, histAccTime2, histCount2, idx,
                    maxError, minColorInterval, maxColorInterval, writerCalls,
                    written, history, oobSteps >>

\* after the loop: the two calls of stbi_write_png
PrintWrite ==
    /\ pc = "print"
    /\ ~ Lt32(i, U32(Size(outImage1)))
    /\ writerCalls' = writerCalls \o
           << [name |-> "1.png", w |-> imageWidth, h |-> imageWidth, comp |-> 4,
               data |-> finalImage1, stride |-> Mul32(U32(4), imageWidth)],
              [name |-> "2.png", w |-> imageWidth, h |-> imageWidth, comp |-> 4,
               data |-> finalImage2, stride |-> Mul32(U32(4), imageWidth)] >>
    /\ pc' = "printed"
    /\ UNCHANGED << parseResult, outcome, usagePrinted, loaded, imageWidth,
                    finalImage1,
                    finalImage2, minColorInterval, maxColorInterval,
                    paletteReads >>
    /\ UNCHANGED scanVars

\* printImage as a function of its inputs: the pixel values of the two
\* images and the colour interval
PrintValues == {0, 2, 5}

Intervals == { <<0, 5>>, <<0, 2>>, <<1, 4>> }

InitPrint ==
    /\ pc = "print"
    /\ parseResult = "ok"
    /\ outcome = "running"
    /\ usagePrinted = FALSE
    /\ loaded = TRUE
    /\ \E w \in 1 .. MaxPrintWidth : imageWidth = U32(w)
    /\ \E a \in [0 .. 2 -> PrintValues] :
          outImage1 = [k \in 0 .. ToInt(ImageSize(imageWidth)) - 1 |-> a[k % 3]]
    /\ \E b \in [0 .. 2 -> PrintValues] :
          outImage2 = [k \in 0 .. ToInt(ImageSize(imageWidth)) - 1 |-> b[k % 3]]
    /\ i = U32(0)
    /\ j = imageWidth
    /\ minImage1 = Infinity
    /\ maxImage1 = 0
    /\ minImage2 = Infinity
    /\ maxImage2 = 0
    /\ histAccTime1 = Zeros(HistSize)
    /\ histCount1 = Zeros(HistSize)
    /\ histAccTime2 = Zeros(HistSize)
    /\ histCount2 = Zeros(HistSize)
    /\ idx = 0
    /\ maxError = 0
    /\ finalImage1 = ZeroWords(Size(outImage1))
    /\ finalImage2 = ZeroWords(Size(outImage1))
    /\ \E iv \in Intervals : minColorInterval = iv[1] /\ maxColorInterval = iv[2]
    /\ writerCalls = << >>
    /\ written = {}
    /\ history = << >>
    /\ paletteReads = {}
    /\ oobSteps = 0

NextPrint ==
    \/ PrintPixel
    \/ PrintWrite

SpecPrint == InitPrint /\ [][NextPrint]_vars

\* ================================================================== claims
W == ToInt(imageWidth)

\* the scan is over: the loop was left, by its test or by break
ScanOver == pc = "log" \/ (pc = "exited" /\ loaded /\ outcome = "return0")

\* |dist1 - dist2| of the p-th processed pixel
Disagreement(p) ==
    IF history[p].dist1 < history[p].dist2
    THEN history[p].dist2 - history[p].dist1
    ELSE history[p].dist1 - history[p].dist2

\* the largest disagreement among the first n processed pixels, 0 for none
WorstOf(n) ==
    LET ds == { Disagreement(p) : p \in 1 .. n } \cup {0}
    IN  CHOOSE m \in ds : \A d \in ds : d <= m

RowWritten(r) == \A col \in 0 .. W - 1 : r * W + col \in written

\* C1: row r+1 is scanned exactly when maxError <= 1e-5 holds at the end of
\* row r: a pixel of a later row is only ever written when every earlier row
\* ended within the tolerance, pixels that were not written keep the value 0
\* in both images, and when the scan is over a row that ended within the
\* tolerance is followed by a written row (so a scan whose pixels all agree
\* writes all W rows).
C1_NextRowIffWithinTolerance ==
    /\ \A k \in DOMAIN outImage1 :
          k \notin written => outImage1[k] = 0 /\ outImage2[k] = 0
    /\ \A k \in written :
          /\ k \div W >= 1 => WorstOf((k \div W) * W) <= Tolerance
          /\ k < Len(history)
    /\ ScanOver =>
          /\ \A r \in 0 .. W - 2 :
                (RowWritten(r) /\ WorstOf((r + 1) * W) <= Tolerance)
                    <=> RowWritten(r + 1)
          /\ W >= 1 => RowWritten(0)
          /\ WorstOf(Len(history)) <= Tolerance => written = 0 .. W * W - 1

\* the scan of a 2 x 2 image was aborted after row 0: row 0 holds the two
\* times, row 1 is still zero
C1_Witness ==
    /\ ScanOver
    /\ W = 2
    /\ written = {0, 1}
    /\ WorstOf(2) > Tolerance
    /\ outImage1[0] # 0 /\ outImage1[1] # 0
    /\ outImage1[2] = 0 /\ outImage1[3] = 0 /\ outImage2[2] = 0 /\ outImage2[3] = 0

\* C2: the tolerance is tested only after the last pixel of a row: when the
\* scan is over the written pixels are whole rows (their number is a multiple
\* of W), and the row of every pixel that disagreed beyond the tolerance was
\* written to its end in both images.
C2_AbortOnlyAtRowEnd ==
    ScanOver =>
        /\ Cardinality(written) = Len(history)
        /\ W >= 1 => Len(history) % W = 0
        /\ written = 0 .. Len(history) - 1
        /\ \A p \in 1 .. Len(history) :
              Disagreement(p) > Tolerance => RowWritten((p - 1) \div W)

\* pixel (0,0) of a 2 x 2 image exceeded the tolerance and pixel (1,0) was
\* still processed and written before the scan stopped
C2_Witness ==
    /\ ScanOver
    /\ W = 2
    /\ Len(history) = 2
    /\ Disagreement(1) > Tolerance
    /\ 1 \in written
    /\ outImage1[1] # 0 /\ outImage2[1] # 0

\* C3: at every point maxError is the largest |dist1 - dist2| of the pixels
\* processed so far (0 before the first), and no step makes it smaller.
C3_MaxErrorIsWorstDisagreement ==
    /\ [](maxError = WorstOf(Len(history)))
    /\ [][maxError' >= maxError]_vars

\* the first pixel lies inside the mesh (dist1 < 0 <= dist2), a later pixel
\* disagrees less: maxError keeps the larger value
C3_Witness ==
    /\ Len(history) >= 2
    /\ maxError > 0
    /\ Disagreement(Len(history)) < maxError
    /\ history[1].dist1 < 0
    /\ \A p \in 1 .. Len(history) : history[p].dist2 >= 0

\* C4: the bucket index of every processed pixel is
\* clamp(round((dist1 * invDiag + 1) * 20), 0, 39): a rounded value below 0
\* gives bucket 0, one above 39 gives bucket 39.
C4_BucketIsClampedRound ==
    \A p \in 1 .. Len(history) :
        /\ history[p].idx \in 0 .. HistSize - 1
        /\ history[p].idx = IF history[p].r < 0 THEN 0
                            ELSE IF history[p].r > HistSize - 1 THEN HistSize - 1
                            ELSE history[p].r

\* channels of a packed word
Red(p) == p.lo % 256

Green(p) == p.lo \div 256

Blue(p) == p.hi % 256

Alpha(p) == p.hi \div 256

\* channel x is within n levels of y
Within(x, y, n) == x - y <= n /\ y - x <= n

\* the packed word is within n levels of the colour (r, g, b), alpha 255
NearColour(p, r, g, b, n) ==
    /\ Within(Red(p), 255 * r, n)
    /\ Within(Green(p), 255 * g, n)
    /\ Within(Blue(p), 255 * b, n)
    /\ Alpha(p) = 255

\* pixels printImage has encoded so far
Encoded == 0 .. ToInt(i) - 1

\* every encoded pixel equal to minColorInterval is within nLo levels of the
\* first palette colour and every one equal to maxColorInterval within nHi
\* levels of the last
EndColours(nLo, nHi) ==
    \A k \in Encoded :
        /\ outImage1[k] = minColorInterval => NearColour(finalImage1[k], 1, 0, 1, nLo)
        /\ outImage2[k] = minColorInterval => NearColour(finalImage2[k], 1, 0, 1, nLo)
        /\ outImage1[k] = maxColorInterval => NearColour(finalImage1[k], 1, 0, 0, nHi)
        /\ outImage2[k] = maxColorInterval => NearColour(finalImage2[k], 1, 0, 0, nHi)

\* C5 as stated: a value at minColorInterval and a value at maxColorInterval
\* are packed within one level of 255 of the first and of the last palette
\* colour.
C5_EndColoursWithinOneLevel == pc \in {"print", "printed"} => EndColours(1, 1)

\* C5 amended: a value at minColorInterval is packed as exactly (255, 0, 255),
\* a value at maxColorInterval within two levels of (255, 0, 0); alpha is 255.
C5_EndColoursWithinTwoLevels == pc \in {"print", "printed"} => EndColours(0, 2)

\* a pixel at each end of the interval has been encoded
C5_Witness ==
    /\ pc = "printed"
    /\ \E k \in Encoded : outImage1[k] = minColorInterval
    /\ \E k \in Encoded : outImage1[k] = maxColorInterval /\ Green(finalImage1[k]) = 2

\* C6: every palette subscript printImage uses lies inside the 5-entry
\* palette (so the lower one is at most 3); a value below the interval gets
\* the colour of position 0 and a value above it the colour of the upper
\* clamp position 3.99.
C6_PaletteSubscriptsInRange ==
    pc \in {"print", "printed"} =>
        /\ \A r \in paletteReads : 0 <= r /\ r <= 4
        /\ \A k \in Encoded :
              /\ outImage1[k] < minColorInterval =>
                    finalImage1[k] = [hi |-> 255 * 256 + 255, lo |-> 255]
              /\ outImage2[k] < minColorInterval =>
                    finalImage2[k] = [hi |-> 255 * 256 + 255, lo |-> 255]
              /\ outImage1[k] > maxColorInterval =>
                    finalImage1[k] = [hi |-> 255 * 256, lo |-> 2 * 256 + 255]
              /\ outImage2[k] > maxColorInterval =>
                    finalImage2[k] = [hi |-> 255 * 256, lo |-> 2 * 256 + 255]

\* a value below, one inside and one above the interval have been encoded
C6_Witness ==
    /\ pc = "printed"
    /\ \E k \in Encoded : outImage1[k] < minColorInterval
    /\ \E k \in Encoded : outImage1[k] > maxColorInterval
    /\ \E k \in Encoded : outImage1[k] > minColorInterval /\ outImage1[k] < maxColorInterval
    /\ paletteReads = {0, 1, 2, 3, 4}

\* main did not get past the command line
NothingStarted == pc = "exited" /\ ~ loaded /\ history = << >> /\ written = {}

\* C8 as stated: whenever the parser rejects the command line, main prints
\* the usage text and returns 0, nothing loaded, no scan.
C8_EveryRejectionPrintsUsage ==
    parseResult \in {"help", "error"} =>
        usagePrinted /\ outcome = "return0" /\ NothingStarted

\* C8 amended: for -h/--help main prints the usage text and returns 0; any
\* other rejection leaves main as an uncaught exception, without the usage
\* text; in both cases nothing is loaded and no scan starts.
C8_OnlyHelpPrintsUsage ==
    /\ parseResult = "help" =>
          usagePrinted /\ outcome = "return0" /\ NothingStarted
    /\ parseResult = "error" =>
          ~ usagePrinted /\ outcome = "terminate" /\ NothingStarted

\* a command line other than -h/--help was rejected
C8_Witness == parseResult = "error" /\ pc = "exited" /\ outcome = "terminate"

\* C9: a run that reached the end of the scan has handed two W x W images to
\* the image writer by the time it exits.
C9_TwoImagesWritten ==
    (pc = "exited" /\ loaded /\ outcome = "return0") =>
        /\ Len(writerCalls) = 2
        /\ \A n \in 1 .. 2 : writerCalls[n].w = imageWidth /\ writerCalls[n].h = imageWidth

\* C10: every index j * imageWidth + i the scan writes is below the element
\* count imageWidth * imageWidth (both in 32-bit unsigned arithmetic).
C10_WriteIndexInsideImage ==
    (pc = "inner" /\ Lt32(i, imageWidth)) =>
        /\ Lt32(PixelIndex, ImageSize(imageWidth))
        /\ ToInt(PixelIndex) < Size(outImage1)

====
